---- MODULE Spec2Model ----
(***************************************************************************)
(* TableMage: the classification wrapper (BaseClassification.specify_data  *)
(* and BaseClassification.fit) and the agent tool adapters of              *)
(* data_tools.py, as two state machines.                                   *)
(*                                                                         *)
(* SpecClf   the life of one BaseClassification object under any sequence  *)
(*           of specify_data and fit calls.                                *)
(* SpecTools one agent session: any sequence of calls of the four tool     *)
(*           adapters on one shared ToolingContext.                        *)
(*                                                                         *)
(* Python values are modelled as records.  None is a record of its own, a  *)
(* Python list is [list |-> <<...>>] and an int argument that may also be  *)
(* None is [int |-> k], so that a value and None can always be compared.   *)
(***************************************************************************)
EXTENDS Integers, Sequences, FiniteSets, TLC

\* ------------------------------------------------------------------ bounds
MaxFolds    == 2        \* largest outer_cv a caller passes
MaxFitCalls == 2        \* fit calls in one behaviour
MaxSpecifyCalls == 2    \* specify_data calls in one behaviour
MaxRows == 1            \* largest row count of the train and test dataframes
MaxToolCalls == 3       \* tool calls in one agent session

None == [none |-> TRUE]

IntArg(k) == [int |-> k]

List(s) == [list |-> s]

\* the DataHandler objects, target names and predictor lists a caller passes
Handlers == {"dh1", "dh2"}

YVars == {"y1", "y2"}

XVarLists == {<<"x1">>}

OuterCvs == {None} \cup {IntArg(k) : k \in 1..MaxFolds}

\* outer_cv_seed: int = 42
DefaultSeed == 42

\* the capabilities an sklearn estimator class may have besides predict
EstimatorAttrs == {"predict_proba", "decision_function"}

\* ----------------------------------------------------- external objects
\* DataHandler.copy(y_var, X_vars): a handler of its own on the same data
DataHandlerCopy(dh, y_var, X_vars) ==
    [src |-> dh, y_var |-> y_var, X_vars |-> X_vars, fold |-> 0, k |-> 0, seed |-> 0]

\* DataHandler.kfold_copies(k, y_var, X_vars, seed): k handlers, one per fold
KfoldCopies(dh, k, y_var, X_vars, seed) ==
    List([i \in 1..k |->
        [src |-> dh, y_var |-> y_var, X_vars |-> X_vars, fold |-> i, k |-> k, seed |-> seed]])

\* self._dropfirst = False
dropfirst == FALSE

\* datahandler.df_train_split(dropfirst) / df_test_split(dropfirst), to_numpy():
\* the pair (X, y) of one part of one handler
DfTrainSplit(h, drop) ==
    [X |-> [of |-> h, part |-> "train", dropfirst |-> drop, cols |-> "X"],
     y |-> [of |-> h, part |-> "train", dropfirst |-> drop, cols |-> "y"]]

DfTestSplit(h, drop) ==
    [X |-> [of |-> h, part |-> "test", dropfirst |-> drop, cols |-> "X"],
     y |-> [of |-> h, part |-> "test", dropfirst |-> drop, cols |-> "y"]]

\* HyperparameterSearcher.fit(X, y) followed by .best_estimator: a new fitted
\* estimator object; id = <<number of the fit call, number of the search in it>>
SearcherFit(X, y, id, attrs) ==
    [id |-> id, fitted_X |-> X, fitted_y |-> y, attrs |-> attrs]

\* hasattr(obj, name); hasattr(None, name) is False
HasAttr(obj, name) == obj # None /\ name \in obj.attrs

\* estimator.predict(X), predict_proba(X), decision_function(X), classes_
Predict(est, X) == [by |-> est.id, fn |-> "predict", X |-> X]

PredictProba(est, X) == [by |-> est.id, fn |-> "predict_proba", X |-> X]

DecisionFunction(est, X) == [by |-> est.id, fn |-> "decision_function", X |-> X]

Classes(est) == [by |-> est.id, fn |-> "classes_"]

\* ClassificationScorer(...): a new scorer object; built_in is the fit call
\* that constructed it
ClassificationScorer(y_pred, y_true, y_pred_score, y_pred_class_order, name, n) ==
    [y_pred |-> y_pred, y_true |-> y_true, y_pred_score |-> y_pred_score,
     y_pred_class_order |-> y_pred_class_order, name |-> name, built_in |-> n]

\* the events one fit call leaves behind, in order
SearchEvent(X, y) == [ev |-> "search", X |-> X, y |-> y]

ScorerEvent(name) == [ev |-> "scorer", name |-> name]

\* --------------------------------------------------------------- state
VARIABLES
    est_attrs,            \* attributes of the estimators the searcher returns
    datahandler,          \* self._datahandler
    datahandlers,         \* self._datahandlers
    estimator,            \* self._estimator
    train_scorer,         \* self.train_scorer
    train_overall_scorer, \* self.train_overall_scorer
    test_scorer,          \* self.test_scorer
    nFit,                 \* fit calls made so far
    nSpecify,             \* specify_data calls made so far
    lastSpecify,          \* arguments of the latest specify_data call, or None
    last                  \* the latest call: what it was, how it ended, the
                          \* object before it and the events it produced

clfVars == <<est_attrs, datahandler, datahandlers, estimator, train_scorer,
             train_overall_scorer, test_scorer, nFit, nSpecify, lastSpecify, last>>

\* the object's fields as one record
Self ==
    [datahandler |-> datahandler, datahandlers |-> datahandlers,
     estimator |-> estimator, train_scorer |-> train_scorer,
     train_overall_scorer |-> train_overall_scorer, test_scorer |-> test_scorer]

\* ------------------------------------------------------- specify_data
\* specify_data with the fold list in place of, not besides, the single handler
specify_data_either(self, dh, y_var, X_vars, outer_cv, outer_cv_seed) ==
    IF outer_cv # None
    THEN [self EXCEPT !.datahandlers =
             KfoldCopies(dh, outer_cv.int, y_var, X_vars, outer_cv_seed)]
    ELSE [self EXCEPT !.datahandler = DataHandlerCopy(dh, y_var, X_vars)]

\* specify_data that keeps a fold list the object already holds
specify_data_keepfolds(self, dh, y_var, X_vars, outer_cv, outer_cv_seed) ==
    LET s1 == [self EXCEPT !.datahandler = DataHandlerCopy(dh, y_var, X_vars)]
    IN  IF outer_cv # None /\ self.datahandlers = None
        THEN [s1 EXCEPT !.datahandlers =
                 KfoldCopies(dh, outer_cv.int, y_var, X_vars, outer_cv_seed)]
        ELSE s1

\* BaseClassification.specify_data(datahandler, y_var, X_vars, outer_cv, outer_cv_seed)
specify_data(self, dh, y_var, X_vars, outer_cv, outer_cv_seed) ==
    LET s1 == [self EXCEPT !.datahandler = DataHandlerCopy(dh, y_var, X_vars)]
    IN  IF outer_cv # None
        THEN [s1 EXCEPT !.datahandlers =
                 KfoldCopies(dh, outer_cv.int, y_var, X_vars, outer_cv_seed)]
        ELSE s1

\* ---------------------------------------------------------------- fit
\* What a fit call leaves: the object, how the call ended ("ok" or the name of
\* the exception) and the searcher fits and scorer constructions, in order.
FitResult(self, outcome, events) ==
    [self |-> self, outcome |-> outcome, events |-> events]

\* lines 73-76: the score of the single-split train scorer; y_pred_score is
\* assigned in neither branch when the estimator has neither attribute
SingleTrainScore(est, X_train) ==
    IF HasAttr(est, "predict_proba") THEN PredictProba(est, X_train)
    ELSE IF HasAttr(est, "decision_function") THEN DecisionFunction(est, X_train)
    ELSE [unbound |-> TRUE]

\* lines 109-113: what one fold appends to y_pred_scores (None: nothing);
\* the elif branch asks self._estimator, the estimator of the previous fit
FoldScore(self_estimator, fold_estimator, X_test) ==
    IF HasAttr(fold_estimator, "predict_proba")
    THEN PredictProba(fold_estimator, X_test)
    ELSE IF HasAttr(self_estimator, "decision_function")
    THEN DecisionFunction(self_estimator, X_test)
    ELSE None

\* lines 137-140: the score of the train-no-CV scorer; the if branch asks
\* fold_estimator, the estimator of the last fold
OverallTrainScore(self_estimator, fold_estimator, X_train) ==
    IF HasAttr(fold_estimator, "predict_proba")
    THEN PredictProba(fold_estimator, X_train)
    ELSE IF HasAttr(self_estimator, "decision_function")
    THEN DecisionFunction(self_estimator, X_train)
    ELSE [unbound |-> TRUE]

\* lines 162-166: the score of the test scorer
TestScore(est, X_test) ==
    IF HasAttr(est, "predict_proba") THEN PredictProba(est, X_test)
    ELSE IF HasAttr(est, "decision_function") THEN DecisionFunction(est, X_test)
    ELSE None

\* the test scorer built only when the object holds none yet
FitTestScoring_cached(self, events, n) ==
    LET test   == DfTestSplit(self.datahandler, dropfirst)
        y_pred == Predict(self.estimator, test.X)
        scorer == ClassificationScorer(y_pred, test.y,
                      TestScore(self.estimator, test.X),
                      Classes(self.estimator), "BaseRegression_test", n)
    IN  IF self.test_scorer # None
        THEN FitResult(self, "ok", events)
        ELSE FitResult([self EXCEPT !.test_scorer = scorer], "ok",
                       Append(events, ScorerEvent("BaseRegression_test")))

\* lines 154-174: the test scorer, built by both branches that do not raise
FitTestScoring(self, events, n) ==
    LET test   == DfTestSplit(self.datahandler, dropfirst)
        y_pred == Predict(self.estimator, test.X)
        scorer == ClassificationScorer(y_pred, test.y,
                      TestScore(self.estimator, test.X),
                      Classes(self.estimator), "BaseRegression_test", n)
    IN  FitResult([self EXCEPT !.test_scorer = scorer], "ok",
                  Append(events, ScorerEvent("BaseRegression_test")))

\* lines 63-85: the single-split branch
FitSingleSplit(self, attrs, n) ==
    LET train  == DfTrainSplit(self.datahandler, dropfirst)
        est    == SearcherFit(train.X, train.y, <<n, 1>>, attrs)
        s1     == [self EXCEPT !.estimator = est]
        ev1    == <<SearchEvent(train.X, train.y)>>
        y_pred == Predict(est, train.X)
        y_pred_score == SingleTrainScore(est, train.X)
        scorer == ClassificationScorer(y_pred, train.y, y_pred_score,
                      Classes(est), "BaseRegression_train", n)
    IN  IF y_pred_score = [unbound |-> TRUE]
        THEN FitResult(s1, "UnboundLocalError", ev1)
        ELSE FitTestScoring([s1 EXCEPT !.train_scorer = scorer],
                 Append(ev1, ScorerEvent("BaseRegression_train")), n)

\* lines 88-125: the fold loop and the aggregate train scorer (the fold list
\* holds k >= 1 folds); fold_estimator is the estimator of the last fold
CrossValFolds(self, attrs, n) ==
    LET folds    == self.datahandlers.list
        k        == Len(folds)
        ftrain(i) == DfTrainSplit(folds[i], dropfirst)
        ftest(i)  == DfTestSplit(folds[i], dropfirst)
        fest(i)   == SearcherFit(ftrain(i).X, ftrain(i).y, <<n, i>>, attrs)
        y_preds  == [i \in 1..k |-> Predict(fest(i), ftest(i).X)]
        y_trues  == [i \in 1..k |-> ftest(i).y]
        appended == [i \in 1..k |-> FoldScore(self.estimator, fest(i), ftest(i).X)]
        scores   == SelectSeq(appended, LAMBDA s : s # None)
        y_pred_scores == IF Len(scores) = 0 THEN None ELSE List(scores)
        cv_scorer == ClassificationScorer(List(y_preds), List(y_trues), y_pred_scores,
                         Classes(fest(k)), "BaseRegression_train_cv", n)
    IN  [self |-> [self EXCEPT !.train_scorer = cv_scorer],
         events |-> [i \in 1..k |-> SearchEvent(ftrain(i).X, ftrain(i).y)]
                       \o <<ScorerEvent("BaseRegression_train_cv")>>,
         fold_estimator |-> fest(k)]

\* the refit left out: the estimator of the last fold is kept
CrossValRefit_keepfold(self, fold_estimator, events, attrs, n) ==
    LET train    == DfTrainSplit(self.datahandler, dropfirst)
        est      == fold_estimator
        s2       == [self EXCEPT !.estimator = est]
        y_pred   == Predict(est, train.X)
        y_pred_score == OverallTrainScore(est, fold_estimator, train.X)
        scorer   == ClassificationScorer(y_pred, train.y, y_pred_score,
                        Classes(est), "BaseRegression_train_no_cv", n)
    IN  IF y_pred_score = [unbound |-> TRUE]
        THEN FitResult(s2, "UnboundLocalError", events)
        ELSE FitTestScoring([s2 EXCEPT !.train_overall_scorer = scorer],
                 Append(events, ScorerEvent("BaseRegression_train_no_cv")), n)

\* lines 127-148: the refit on all data and the train-no-CV scorer
CrossValRefit(self, fold_estimator, events, attrs, n) ==
    LET train    == DfTrainSplit(self.datahandler, dropfirst)
        est      == SearcherFit(train.X, train.y,
                                <<n, Len(self.datahandlers.list) + 1>>, attrs)
        s2       == [self EXCEPT !.estimator = est]
        ev2      == Append(events, SearchEvent(train.X, train.y))
        y_pred   == Predict(est, train.X)
        y_pred_score == OverallTrainScore(est, fold_estimator, train.X)
        scorer   == ClassificationScorer(y_pred, train.y, y_pred_score,
                        Classes(est), "BaseRegression_train_no_cv", n)
    IN  IF y_pred_score = [unbound |-> TRUE]
        THEN FitResult(s2, "UnboundLocalError", ev2)
        ELSE FitTestScoring([s2 EXCEPT !.train_overall_scorer = scorer],
                 Append(ev2, ScorerEvent("BaseRegression_train_no_cv")), n)

\* lines 87-148: the cross-validation branch
FitCrossVal(self, attrs, n) ==
    LET cv == CrossValFolds(self, attrs, n)
    IN  CrossValRefit(cv.self, cv.fold_estimator, cv.events, attrs, n)

\* BaseClassification.fit, the n-th fit call on the object
fit(self, attrs, n) ==
    IF self.datahandlers = None /\ self.datahandler # None
    THEN FitSingleSplit(self, attrs, n)
    ELSE IF self.datahandlers # None /\ self.datahandler # None
    THEN FitCrossVal(self, attrs, n)
    ELSE FitResult(self, "ValueError", <<>>)

\* BaseClassification.sklearn_estimator
sklearn_estimator(self) == self.estimator

\* ------------------------------------------------------------- actions
Store(self) ==
    /\ datahandler' = self.datahandler
    /\ datahandlers' = self.datahandlers
    /\ estimator' = self.estimator
    /\ train_scorer' = self.train_scorer
    /\ train_overall_scorer' = self.train_overall_scorer
    /\ test_scorer' = self.test_scorer

SpecifyData ==
    /\ nSpecify < MaxSpecifyCalls
    /\ \E dh \in Handlers, y_var \in YVars, X_vars \in XVarLists, outer_cv \in OuterCvs :
         LET args == [dh |-> dh, y_var |-> y_var, X_vars |-> X_vars,
                      outer_cv |-> outer_cv, outer_cv_seed |-> DefaultSeed]
         IN  /\ Store(specify_data(Self, dh, y_var, X_vars, outer_cv, DefaultSeed))
             /\ lastSpecify' = args
             /\ last' = [op |-> "specify_data", args |-> args, pre |-> Self]
    /\ nSpecify' = nSpecify + 1
    /\ UNCHANGED <<est_attrs, nFit>>

Fit ==
    /\ nFit < MaxFitCalls
    /\ LET r == fit(Self, est_attrs, nFit + 1)
       IN  /\ Store(r.self)
           /\ last' = [op |-> "fit", n |-> nFit + 1, outcome |-> r.outcome,
                       events |-> r.events, pre |-> Self,
                       specified |-> lastSpecify # None,
                       returned |-> sklearn_estimator(r.self)]
    /\ nFit' = nFit + 1
    /\ UNCHANGED <<est_attrs, nSpecify, lastSpecify>>


\* ================================================= agent tool adapters
\* the variables of the dataset, the descriptions an agent gives, the queries
Vars == {"age", "income"}

Descriptions == {"", "years since birth", "age in years"}

Queries == {"top 5 rows by mpg"}

VARIABLES
    analyzer,       \* context._data_container.analyzer.datahandler(): its data
    variable_info,  \* context._data_container.variable_info: var -> description
    log,            \* the trace log of the ToolingContext
    nCalls,         \* tool calls made so far
    setHistory,     \* the (var, description) pairs the agent has set, in order
    lastTool        \* the latest tool call: its arguments, result and the
                    \* context before it

toolVars == <<analyzer, variable_info, log, nCalls, setHistory, lastTool>>

vars == <<clfVars, toolVars>>

\* ToolingContext.add_thought / add_code: one more entry at the end of the log
add_thought(lg, text) == Append(lg, [kind |-> "thought", text |-> text])

add_code(lg, code) == Append(lg, [kind |-> "code", text |-> code])

\* ToolingContext.add_dict: one structured entry; the handle names its place
add_dict(lg, d) ==
    [log |-> Append(lg, [kind |-> "dict", value |-> d]),
     handle |-> [entry |-> Len(lg) + 1]]

\* VariableInfo.get_description / set_description
get_description(info, var) == IF var \in DOMAIN info THEN info[var] ELSE ""

set_description(info, var, description) ==
    [v \in DOMAIN info \cup {var} |-> IF v = var THEN description ELSE info[v]]

\* tooling_decorator: the result of the wrapped function, or the translation
\* of the exception it raised; the context is left to the function
tooling_decorator(r) ==
    IF r.raised THEN [r EXCEPT !.result = [error |-> "translated"]] ELSE r

\* pd_query_engine.query(query): a response, or an exception of the engine
QueryOutcomes(query) ==
    {[raised |-> FALSE, str |-> <<"answer", query>>,
      pandas_instruction_str |-> <<"df.", query>>,
      raw_pandas_output |-> <<"rows", query>>],
     [raised |-> TRUE]}

\* DataFrame.shape
Shape(df) == <<df.n_rows, df.n_cols>>

\* the query whose thoughts and code are recorded once the engine has answered
pandas_query_function_late(query, response, lg) ==
    LET l1 == add_thought(lg,
                  <<"I am going to write and run Python code to answer the query: ", query>>)
        l2 == add_code(l1, "df = analyzer.df_all()")
        l3 == add_code(l2, response.pandas_instruction_str)
        l4 == add_thought(l3, <<"The output of the query is:", response.raw_pandas_output>>)
    IN  IF response.raised
        THEN [raised |-> TRUE, log |-> lg, result |-> None]
        ELSE [raised |-> FALSE, log |-> l4, result |-> response.str]

\* _pandas_query_function(query, context), the engine answering with response
pandas_query_function(query, response, lg) ==
    LET l1 == add_thought(lg,
                  <<"I am going to write and run Python code to answer the query: ", query>>)
        l2 == add_code(l1, "df = analyzer.df_all()")
        l3 == add_code(l2, response.pandas_instruction_str)
        l4 == add_thought(l3, <<"The output of the query is:", response.raw_pandas_output>>)
    IN  IF response.raised
        THEN [raised |-> TRUE, log |-> l2, result |-> None]
        ELSE [raised |-> FALSE, log |-> l4, result |-> response.str]

\* the summary with the test shape read from the training dataframe
dataset_summary_function_train(dh, lg) ==
    LET l1 == add_thought(lg, "I am going to obtain a summary of the dataset")
        l2 == add_code(l1, "analyzer.shape('train')")
        l3 == add_code(l2, "analyzer.shape('test')")
        l4 == add_code(l3, "analyzer.numeric_vars()")
        l5 == add_code(l4, "analyzer.categorical_vars()")
        shape(df) ==
            [n_rows |-> Shape(df)[1], n_vars |-> Shape(df)[2],
             n_categorical_vars |-> Cardinality(dh.categorical_vars),
             n_numeric_vars |-> Cardinality(dh.numeric_vars)]
        output_dict ==
            [train_shape |-> shape(dh.df_train), test_shape |-> shape(dh.df_train),
             numeric_vars |-> dh.numeric_vars, categorical_vars |-> dh.categorical_vars]
        added == add_dict(l5, output_dict)
    IN  [raised |-> FALSE, log |-> added.log, result |-> added.handle]

\* _dataset_summary_function(context)
dataset_summary_function(dh, lg) ==
    LET l1 == add_thought(lg, "I am going to obtain a summary of the dataset")
        l2 == add_code(l1, "analyzer.shape('train')")
        l3 == add_code(l2, "analyzer.shape('test')")
        l4 == add_code(l3, "analyzer.numeric_vars()")
        l5 == add_code(l4, "analyzer.categorical_vars()")
        shape(df) ==
            [n_rows |-> Shape(df)[1], n_vars |-> Shape(df)[2],
             n_categorical_vars |-> Cardinality(dh.categorical_vars),
             n_numeric_vars |-> Cardinality(dh.numeric_vars)]
        output_dict ==
            [train_shape |-> shape(dh.df_train), test_shape |-> shape(dh.df_test),
             numeric_vars |-> dh.numeric_vars, categorical_vars |-> dh.categorical_vars]
        added == add_dict(l5, output_dict)
    IN  [raised |-> FALSE, log |-> added.log, result |-> added.handle]

\* _get_variable_description_function(var, context)
get_variable_description_function(var, info) ==
    [raised |-> FALSE, result |-> get_description(info, var)]

\* the description and the variable passed in each other's place
set_variable_description_function_swapped(var, description, info) ==
    [raised |-> FALSE, info |-> set_description(info, description, var),
     result |-> <<"Description of variable ", var, " has been set to: ", description>>]

\* _set_variable_description_function(var, description, context)
set_variable_description_function(var, description, info) ==
    [raised |-> FALSE, info |-> set_description(info, var, description),
     result |-> <<"Description of variable ", var, " has been set to: ", description>>]

\* the context a call finds
Before == [analyzer |-> analyzer, variable_info |-> variable_info, log |-> log]

\* the data container of a session in which no tool is called
IdleAnalyzer ==
    [df_train |-> [n_rows |-> 0, n_cols |-> Cardinality(Vars)],
     df_test |-> [n_rows |-> 0, n_cols |-> Cardinality(Vars)],
     numeric_vars |-> Vars, categorical_vars |-> {}]

\* BaseClassification.__init__, in a subclass that has set the searcher to one
\* over an estimator class with any of the attributes; no tool is called
InitClf ==
    /\ est_attrs \in SUBSET EstimatorAttrs
    /\ datahandler = None
    /\ datahandlers = None
    /\ estimator = None
    /\ train_scorer = None
    /\ train_overall_scorer = None
    /\ test_scorer = None
    /\ nFit = 0
    /\ nSpecify = 0
    /\ lastSpecify = None
    /\ last = [op |-> "__init__"]
    /\ analyzer = IdleAnalyzer
    /\ variable_info = <<>>
    /\ log = <<>>
    /\ nCalls = 0
    /\ setHistory = <<>>
    /\ lastTool = [op |-> "none"]

\* a data container as the session finds it: any two dataframes over Vars, any
\* division of Vars in numeric and categorical ones, no description yet; the
\* classification object is left as constructed
InitTools ==
    /\ \E tr \in 0..MaxRows, te \in 0..MaxRows, num \in SUBSET Vars :
          analyzer = [df_train |-> [n_rows |-> tr, n_cols |-> Cardinality(Vars)],
                      df_test |-> [n_rows |-> te, n_cols |-> Cardinality(Vars)],
                      numeric_vars |-> num, categorical_vars |-> Vars \ num]
    /\ variable_info = <<>>
    /\ log = <<>>
    /\ nCalls = 0
    /\ setHistory = <<>>
    /\ lastTool = [op |-> "none"]
    /\ est_attrs = EstimatorAttrs
    /\ datahandler = None
    /\ datahandlers = None
    /\ estimator = None
    /\ train_scorer = None
    /\ train_overall_scorer = None
    /\ test_scorer = None
    /\ nFit = 0
    /\ nSpecify = 0
    /\ lastSpecify = None
    /\ last = [op |-> "__init__"]

PandasQuery ==
    /\ nCalls < MaxToolCalls
    /\ \E query \in Queries : \E response \in QueryOutcomes(query) :
          LET r == tooling_decorator(pandas_query_function(query, response, log))
          IN  /\ log' = r.log
              /\ lastTool' = [op |-> "pandas_query", query |-> query,
                              raised |-> r.raised, result |-> r.result, pre |-> Before]
    /\ nCalls' = nCalls + 1
    /\ UNCHANGED <<analyzer, variable_info, setHistory>>

DatasetSummary ==
    /\ nCalls < MaxToolCalls
    /\ LET r == tooling_decorator(dataset_summary_function(analyzer, log))
       IN  /\ log' = r.log
           /\ lastTool' = [op |-> "dataset_summary", raised |-> r.raised,
                           result |-> r.result, pre |-> Before]
    /\ nCalls' = nCalls + 1
    /\ UNCHANGED <<analyzer, variable_info, setHistory>>

GetVariableDescription ==
    /\ nCalls < MaxToolCalls
    /\ \E var \in Vars :
          LET r == tooling_decorator(get_variable_description_function(var, variable_info))
          IN  lastTool' = [op |-> "get_variable_description", var |-> var,
                           raised |-> r.raised, result |-> r.result, pre |-> Before]
    /\ nCalls' = nCalls + 1
    /\ UNCHANGED <<analyzer, variable_info, log, setHistory>>

SetVariableDescription ==
    /\ nCalls < MaxToolCalls
    /\ \E var \in Vars, description \in Descriptions :
          LET r == tooling_decorator(
                       set_variable_description_function(var, description, variable_info))
          IN  /\ variable_info' = r.info
              /\ setHistory' = Append(setHistory, [var |-> var, description |-> description])
              /\ lastTool' = [op |-> "set_variable_description", var |-> var,
                              description |-> description, raised |-> r.raised,
                              result |-> r.result, pre |-> Before]
    /\ nCalls' = nCalls + 1
    /\ UNCHANGED <<analyzer, log>>

SpecifyDataCall == SpecifyData /\ UNCHANGED toolVars

FitCall == Fit /\ UNCHANGED toolVars

PandasQueryCall == PandasQuery /\ UNCHANGED clfVars

DatasetSummaryCall == DatasetSummary /\ UNCHANGED clfVars

GetVariableDescriptionCall == GetVariableDescription /\ UNCHANGED clfVars

SetVariableDescriptionCall == SetVariableDescription /\ UNCHANGED clfVars

NextClf == SpecifyDataCall \/ FitCall

NextTools ==
    \/ PandasQueryCall
    \/ DatasetSummaryCall
    \/ GetVariableDescriptionCall
    \/ SetVariableDescriptionCall

SpecClf == InitClf /\ [][NextClf]_vars

SpecTools == InitTools /\ [][NextTools]_vars

\* ------------------------------------------------- claims on SpecClf
\* the scorers the object holds that are not None
HeldScorers == {train_scorer, train_overall_scorer, test_scorer} \ {None}

\* the scorers the latest fit call constructed
BuiltScorers == {s \in HeldScorers : s.built_in = nFit}

\* the searcher invocations of the latest fit call, in order
Searches == SelectSeq(last.events, LAMBDA e : e.ev = "search")

FitReturned == last.op = "fit" /\ last.outcome = "ok"

\* C1: fit ends with ValueError exactly when no specify_data call was made
\* before it; such a fit invokes no searcher and leaves the estimator and the
\* three scorers as they were.
C1_ValueErrorIffNotSpecified ==
    last.op = "fit" =>
        /\ (last.outcome = "ValueError") <=> ~last.specified
        /\ last.outcome = "ValueError" =>
              /\ Searches = <<>>
              /\ estimator = last.pre.estimator
              /\ train_scorer = last.pre.train_scorer
              /\ train_overall_scorer = last.pre.train_overall_scorer
              /\ test_scorer = last.pre.test_scorer

C1_Witness == last.op = "fit" /\ last.outcome = "ValueError" /\ nFit = 2

\* C2: after specify_data(..., outer_cv=None) the fold list is empty, and a fit
\* whose latest specify_data had outer_cv=None fits the searcher once, on the
\* train split of that call's handler, and builds no train-no-CV scorer.
C2_OuterCvNoneIsSingleSplit ==
    /\ (last.op = "specify_data" /\ last.args.outer_cv = None) => datahandlers = None
    /\ (last.op = "fit" /\ last.specified /\ lastSpecify.outer_cv = None) =>
          LET h == DataHandlerCopy(lastSpecify.dh, lastSpecify.y_var, lastSpecify.X_vars)
              train == DfTrainSplit(h, dropfirst)
          IN  /\ Searches = <<SearchEvent(train.X, train.y)>>
              /\ train_overall_scorer \notin BuiltScorers

\* C3: after specify_data(..., outer_cv=k) the object holds k fold handlers, the
\* i-th being fold i of k of that call's handler, y_var and X_vars; a fit that
\* returns while that call is the latest specify_data gives the train scorer k
\* predictions and k true-label arrays, the i-th on the test split of fold i.
C3_KFoldsKPredictions ==
    /\ (last.op = "specify_data" /\ last.args.outer_cv # None) =>
          /\ datahandlers # None
          /\ Len(datahandlers.list) = last.args.outer_cv.int
          /\ \A i \in 1..Len(datahandlers.list) :
                LET f == datahandlers.list[i]
                IN  /\ f.src = last.args.dh
                    /\ f.y_var = last.args.y_var
                    /\ f.X_vars = last.args.X_vars
                    /\ f.fold = i
                    /\ f.k = last.args.outer_cv.int
    /\ (FitReturned /\ lastSpecify.outer_cv # None) =>
          LET k == lastSpecify.outer_cv.int
              fold(i) == [src |-> lastSpecify.dh, y_var |-> lastSpecify.y_var,
                          X_vars |-> lastSpecify.X_vars, fold |-> i, k |-> k,
                          seed |-> lastSpecify.outer_cv_seed]
          IN  /\ train_scorer.built_in = nFit
              /\ Len(train_scorer.y_pred.list) = k
              /\ Len(train_scorer.y_true.list) = k
              /\ \A i \in 1..k :
                    /\ train_scorer.y_pred.list[i].fn = "predict"
                    /\ train_scorer.y_pred.list[i].X = DfTestSplit(fold(i), dropfirst).X
                    /\ train_scorer.y_true.list[i] = DfTestSplit(fold(i), dropfirst).y

C3_Witness ==
    /\ FitReturned
    /\ lastSpecify.outer_cv = IntArg(MaxFolds)
    /\ nSpecify = 2
    /\ Len(train_scorer.y_pred.list) = MaxFolds

\* the score function the policy selects for an estimator with attributes a
PolicyFn(a) ==
    IF "predict_proba" \in a THEN "predict_proba"
    ELSE IF "decision_function" \in a THEN "decision_function"
    ELSE "none"

\* the scores of a scorer: one per fold for the aggregate scorer, else one
ScoresOf(s) ==
    IF s.y_pred_score = None THEN <<>>
    ELSE IF s.name = "BaseRegression_train_cv" THEN s.y_pred_score.list
    ELSE <<s.y_pred_score>>

PredsOf(s) ==
    IF s.name = "BaseRegression_train_cv" THEN s.y_pred.list ELSE <<s.y_pred>>

\* C4: a fit on configured data returns also when the estimator has neither
\* predict_proba nor decision_function, and every scorer it builds carries the
\* score the policy selects: predict_proba, else decision_function, else none.
C4_ScoringPolicy ==
    (last.op = "fit" /\ last.specified) =>
        /\ last.outcome = "ok"
        /\ \A s \in BuiltScorers :
              IF PolicyFn(est_attrs) = "none"
              THEN s.y_pred_score = None
              ELSE /\ Len(ScoresOf(s)) = Len(PredsOf(s))
                   /\ \A i \in 1..Len(ScoresOf(s)) : ScoresOf(s)[i].fn = PolicyFn(est_attrs)

\* C5: a cross-validation fit over k folds that returns has invoked the
\* searcher on the train split of fold 1..k in order, then built the aggregate
\* train scorer, then invoked the searcher on the full train split; the
\* estimator of that last search is the one sklearn_estimator() returns and the
\* one whose predictions the train-no-CV and test scorers hold.
C5_FoldFitsThenRefit ==
    (FitReturned /\ last.pre.datahandlers # None) =>
        LET folds == last.pre.datahandlers.list
            k     == Len(folds)
            train == DfTrainSplit(last.pre.datahandler, dropfirst)
        IN  /\ Len(Searches) = k + 1
            /\ \A i \in 1..k :
                  last.events[i] = SearchEvent(DfTrainSplit(folds[i], dropfirst).X,
                                               DfTrainSplit(folds[i], dropfirst).y)
            /\ last.events[k + 1] = ScorerEvent("BaseRegression_train_cv")
            /\ last.events[k + 2] = SearchEvent(train.X, train.y)
            /\ last.returned.id = <<nFit, k + 1>>
            /\ last.returned.fitted_X = train.X
            /\ last.returned.fitted_y = train.y
            /\ train_overall_scorer.built_in = nFit
            /\ train_overall_scorer.y_pred.by = last.returned.id
            /\ test_scorer.built_in = nFit
            /\ test_scorer.y_pred.by = last.returned.id

C5_Witness ==
    /\ FitReturned
    /\ last.pre.datahandlers # None
    /\ Len(last.pre.datahandlers.list) = MaxFolds
    /\ nFit = 2

\* C7: when a fit call returns, every scorer the object holds was constructed
\* by that call.
C7_ScorersFresh == FitReturned => \A s \in HeldScorers : s.built_in = nFit

C7_Witness ==
    /\ FitReturned
    /\ nFit = 2
    /\ last.pre.test_scorer # None
    /\ Cardinality(HeldScorers) = 3

\* C10: in every scorer a fit builds with a score, each score comes from the
\* estimator that made the matching prediction, on the same rows.
C10_ScoreFromPredictingEstimator ==
    last.op = "fit" =>
        \A s \in BuiltScorers :
            s.y_pred_score # None =>
                /\ Len(ScoresOf(s)) = Len(PredsOf(s))
                /\ \A i \in 1..Len(ScoresOf(s)) :
                      /\ ScoresOf(s)[i].by = PredsOf(s)[i].by
                      /\ ScoresOf(s)[i].X = PredsOf(s)[i].X


\* ------------------------------------------------ claims on SpecTools
\* what the latest tool call added to the trace log
Added == SubSeq(log, Len(lastTool.pre.log) + 1, Len(log))

\* the log a call found is the beginning of the log it leaves
AppendOnly ==
    /\ Len(lastTool.pre.log) <= Len(log)
    /\ SubSeq(log, 1, Len(lastTool.pre.log)) = lastTool.pre.log

AddedTrace == \E i \in 1..Len(Added) : Added[i].kind \in {"thought", "code"}

\* the description of the latest set call for var, "" when there is none
LatestSet(var) ==
    LET at == {i \in 1..Len(setHistory) : setHistory[i].var = var}
    IN  IF at = {} THEN ""
        ELSE setHistory[CHOOSE i \in at : \A j \in at : j <= i].description

\* C6: a get for a variable returns the description of the latest set for that
\* variable, the empty string when there was none, and leaves the registry as
\* it found it.
C6_GetReturnsLatestSet ==
    lastTool.op = "get_variable_description" =>
        /\ lastTool.result = LatestSet(lastTool.var)
        /\ variable_info = lastTool.pre.variable_info

C6_Witness ==
    /\ lastTool.op = "get_variable_description"
    /\ lastTool.result = "years since birth"
    /\ Len(setHistory) = 2
    /\ setHistory[1].var = lastTool.var
    /\ setHistory[2].var = lastTool.var
    /\ setHistory[1].description = "age in years"

\* C8: every call of every tool adapter adds at least one thought or code entry
\* to the trace log, and the log it found is the beginning of the log it leaves.
C8_EveryCallAddsTrace == lastTool.op # "none" => (AppendOnly /\ AddedTrace)

\* C8, amended: every call of the pandas query and dataset summary adapters adds
\* at least one thought or code entry; for all four adapters the log a call
\* found is the beginning of the log it leaves.
C8_QueryAndSummaryAddTrace ==
    lastTool.op # "none" =>
        /\ AppendOnly
        /\ lastTool.op \in {"pandas_query", "dataset_summary"} => AddedTrace

C8_Witness ==
    /\ lastTool.op = "pandas_query"
    /\ lastTool.raised
    /\ Len(lastTool.pre.log) > 0
    /\ Len(Added) > 0

\* C9: a dataset summary call adds exactly one structured entry, returns the
\* handle of that entry, reports in it the row and column counts of the train
\* and of the test dataframe, and leaves data handler and registry unchanged.
C9_SummaryMatchesShapes ==
    lastTool.op = "dataset_summary" =>
        LET dicts == SelectSeq(Added, LAMBDA e : e.kind = "dict")
        IN  /\ Len(dicts) = 1
            /\ lastTool.result.entry \in Len(lastTool.pre.log) + 1 .. Len(log)
            /\ log[lastTool.result.entry] = dicts[1]
            /\ dicts[1].value.train_shape.n_rows = analyzer.df_train.n_rows
            /\ dicts[1].value.train_shape.n_vars = analyzer.df_train.n_cols
            /\ dicts[1].value.test_shape.n_rows = analyzer.df_test.n_rows
            /\ dicts[1].value.test_shape.n_vars = analyzer.df_test.n_cols
            /\ analyzer = lastTool.pre.analyzer
            /\ variable_info = lastTool.pre.variable_info

C9_Witness ==
    /\ lastTool.op = "dataset_summary"
    /\ analyzer.df_train.n_rows = MaxRows
    /\ analyzer.df_test.n_rows = 1
    /\ Len(lastTool.pre.log) > 0
    /\ DOMAIN variable_info # {}

====
